---- MODULE Spec2Model ----
(***************************************************************************)
(* Model of the churn-prediction dashboard (src/app.py): the risk tiers    *)
(* of the dashboard table (pd.cut) and of the quick-predict form (the      *)
(* threshold ladder), the fallback estimate of the quick-predict form,     *)
(* and the history & comparison page with the session state its requests   *)
(* touch.                                                                  *)
(*                                                                         *)
(* Probabilities are fixed-point numbers in units of 1/10000, so that      *)
(* 0.30 is 3000 and 0.2999 is 2999.  The source computes in binary         *)
(* floating point; the sixteen sums the estimate can produce fall on the   *)
(* same side of every threshold in both arithmetics.                       *)
(***************************************************************************)
EXTENDS Integers, Sequences, FiniteSets, TLC

VARIABLES
    \* dashboard page
    csv,              \* the predictions file as load_data reads it: None or a table
    data,             \* the frame the last run of the dashboard page worked on
    dash,             \* what the last render of the dashboard page produced
    \* quick-predict page
    form,             \* the widget values of the quick-predict form
    prediction,       \* what the last run of the quick-predict page shows
    prevPrediction,   \* history: the prediction last taken off the page, None at first
    \* session state and history & comparison page
    authenticated, token, user, current_analysis,
    history,          \* the datasets GET /datasets/history answers with
    prev_selection, curr_selection,
    comparePage,      \* what the last run of the comparison page produced
    authPage          \* what the last submit on the login page produced

dashVars    == <<csv, data, dash>>
predictVars == <<form, prediction, prevPrediction>>
sessionVars == <<authenticated, token, user, current_analysis>>
compareVars == <<history, prev_selection, curr_selection, comparePage>>
vars == <<csv, data, dash, form, prediction, prevPrediction,
          authenticated, token, user, current_analysis,
          history, prev_selection, curr_selection, comparePage, authPage>>

\* Python's None; every variable holds records, told apart by their kind
None == [kind |-> "None"]
NaN  == "NaN"

----------------------------------------------------------------------------
(* Bounds and value samples *)

MaxRows == 2

\* probabilities a customer table may hold: both sides of every bin edge,
\* the edges themselves, and values outside [0,1]
ProbValues == {0 - 1, 0, 1, 2999, 3000, 3001, 4999, 5000, 5001,
               6999, 7000, 7001, 9999, 10000, 10001}

ChargeValues == {20, 70}

Tiers == <<"Low", "Medium", "High", "Critical">>
TierSet == {Tiers[i] : i \in 1..4}

----------------------------------------------------------------------------
(* Risk tiers *)

\* the threshold ladder of the quick-predict page
RiskLadder(prob) ==
    IF prob >= 7000 THEN "Critical"
    ELSE IF prob >= 5000 THEN "High"
    ELSE IF prob >= 3000 THEN "Medium"
    ELSE "Low"

\* pd.cut(x, bins, labels) with the defaults right=True, include_lowest=False:
\* bin i is the half-open interval (bins[i], bins[i+1]], a value in no bin is NaN
Bins == <<0, 3000, 5000, 7000, 10000>>

pd_cut(x) ==
    IF \E i \in 1..4 : Bins[i] < x /\ x <= Bins[i + 1]
    THEN Tiers[CHOOSE i \in 1..4 : Bins[i] < x /\ x <= Bins[i + 1]]
    ELSE NaN

----------------------------------------------------------------------------
(* Dashboard page *)

Rows == [Churn_Probability : ProbValues, MonthlyCharges : ChargeValues]

RECURSIVE SeqsUpTo(_, _)
SeqsUpTo(S, n) ==
    IF n = 0 THEN {<<>>}
    ELSE LET shorter == SeqsUpTo(S, n - 1)
         IN  shorter \cup {Append(s, x) : s \in {t \in shorter : Len(t) = n - 1}, x \in S}

\* the table pd.read_csv yields; the Churn_Probability column may be absent
DataFrames == [kind : {"DataFrame"}, hasProb : BOOLEAN, rows : SeqsUpTo(Rows, MaxRows)]

\* (data['Churn_Probability'] >= threshold).sum()
RECURSIVE CountAtLeast(_, _)
CountAtLeast(rows, threshold) ==
    IF rows = <<>> THEN 0
    ELSE (IF Head(rows).Churn_Probability >= threshold THEN 1 ELSE 0)
         + CountAtLeast(Tail(rows), threshold)

\* data[data['Churn_Probability'] >= threshold]['MonthlyCharges'].sum()
RECURSIVE ChargesAtLeast(_, _)
ChargesAtLeast(rows, threshold) ==
    IF rows = <<>> THEN 0
    ELSE (IF Head(rows).Churn_Probability >= threshold
          THEN Head(rows).MonthlyCharges ELSE 0)
         + ChargesAtLeast(Tail(rows), threshold)

RECURSIVE SumProbability(_)
SumProbability(rows) ==
    IF rows = <<>> THEN 0
    ELSE Head(rows).Churn_Probability + SumProbability(Tail(rows))

value_counts(levels) ==
    [t \in TierSet |-> Cardinality({i \in 1..Len(levels) : levels[i] = t})]

\* load_data: the table of the predictions file, None when it cannot be read;
\* st.cache_data hands every caller its own copy of the cached value
load_data == csv

NoDash == [view |-> "none"]

show_dashboard_page ==
    /\ IF load_data = None
       THEN /\ data' = None
            /\ dash' = [view |-> "no_data"]
       ELSE LET rows == load_data.rows
                n    == Len(rows)
            IN  IF load_data.hasProb
                THEN /\ dash' =
                       [view |-> "table",
                        total_customers |-> n,
                        high_risk       |-> CountAtLeast(rows, 7000),
                        critical_risk   |-> CountAtLeast(rows, 5000),
                        revenue_at_risk |-> ChargesAtLeast(rows, 5000),
                        \* mean * 100 in units of 1/10000 of a percent; the
                        \* mean of no rows is NaN, written {}
                        churn_rate      |-> IF n = 0 THEN {}
                                            ELSE {(SumProbability(rows) * 100) \div n},
                        risk_counts     |-> value_counts([i \in 1..n |-> pd_cut(rows[i].Churn_Probability)])]
                     \* data['Risk_Level'] = pd.cut(...)
                     /\ data' = [kind |-> "DataFrame", hasProb |-> TRUE, rows |-> rows,
                                 hasRiskLevel |-> TRUE,
                                 Risk_Level |-> [i \in 1..n |-> pd_cut(rows[i].Churn_Probability)]]
                ELSE /\ dash' =
                       [view |-> "table",
                        total_customers |-> n,
                        high_risk       |-> (n * 15) \div 100,
                        critical_risk   |-> (n * 25) \div 100,
                        revenue_at_risk |-> 211661,
                        churn_rate      |-> {265000},
                        risk_counts     |-> [t \in TierSet |->
                                              CASE t = "Low" -> 3500
                                                [] t = "Medium" -> 1800
                                                [] t = "High" -> 1200
                                                [] t = "Critical" -> 543]]
                     /\ data' = [kind |-> "DataFrame", hasProb |-> FALSE, rows |-> rows,
                                 hasRiskLevel |-> FALSE, Risk_Level |-> <<>>]
    /\ UNCHANGED <<csv, predictVars, sessionVars, compareVars, authPage>>

----------------------------------------------------------------------------
(* Quick-predict page *)

YesNo == {"No", "Yes"}
TenureValues  == {11, 12}
MonthlyValues == {18, 70}
TotalValues   == {0, 840}

Widgets ==
    [gender     |-> {"Male", "Female"},
     senior     |-> YesNo,
     partner    |-> YesNo,
     dependents |-> YesNo,
     tenure     |-> TenureValues,
     contract   |-> {"Month-to-month", "One year", "Two year"},
     internet   |-> {"DSL", "Fiber optic", "No"},
     phone      |-> YesNo,
     monthly    |-> MonthlyValues,
     total      |-> TotalValues,
     payment    |-> {"Electronic check", "Mailed check",
                     "Bank transfer (automatic)", "Credit card (automatic)"}]

\* the values the widgets hold before the user touches them
DefaultForm ==
    [gender |-> "Male", senior |-> "No", partner |-> "No", dependents |-> "No",
     tenure |-> 12, contract |-> "Month-to-month", internet |-> "DSL",
     phone |-> "Yes", monthly |-> 70, total |-> 840,
     payment |-> "Electronic check"]

Min(a, b) == IF a <= b THEN a ELSE b

\* the heuristic with the tenure test off by one
estimate_tenure_inclusive(r) ==
    LET p0 == 2000
        p1 == IF r.contract = "Month-to-month" THEN p0 + 3000 ELSE p0
        p2 == IF r.tenure <= 12 THEN p1 + 2000 ELSE p1
        p3 == IF r.internet = "Fiber optic" THEN p2 + 1000 ELSE p2
        p4 == IF r.payment = "Electronic check" THEN p3 + 1000 ELSE p3
    IN  Min(p4, 9500)

\* the heuristic with a fifth contribution, for senior citizens
estimate_senior(r) ==
    LET p0 == 2000
        p1 == IF r.contract = "Month-to-month" THEN p0 + 3000 ELSE p0
        p2 == IF r.tenure < 12 THEN p1 + 2000 ELSE p1
        p3 == IF r.internet = "Fiber optic" THEN p2 + 1000 ELSE p2
        p4 == IF r.payment = "Electronic check" THEN p3 + 1000 ELSE p3
        p5 == IF r.senior = "Yes" THEN p4 + 500 ELSE p4
    IN  Min(p5, 9500)

\* the heuristic of the Predict button, in units of 1/10000
estimate(r) ==
    LET p0 == 2000
        p1 == IF r.contract = "Month-to-month" THEN p0 + 3000 ELSE p0
        p2 == IF r.tenure < 12 THEN p1 + 2000 ELSE p1
        p3 == IF r.internet = "Fiber optic" THEN p2 + 1000 ELSE p2
        p4 == IF r.payment = "Electronic check" THEN p3 + 1000 ELSE p3
    IN  Min(p4, 9500)

\* the recommendations branch with its first test exclusive
recommend_exclusive(prob) ==
    IF prob > 7000
    THEN <<"Offer contract upgrade discount", "Assign dedicated support">>
    ELSE IF prob >= 5000
    THEN <<"Schedule check-in call", "Review pricing options">>
    ELSE <<"Continue standard engagement">>

\* the branch of the recommendations column
recommend(prob) ==
    IF prob >= 7000
    THEN <<"Offer contract upgrade discount", "Assign dedicated support">>
    ELSE IF prob >= 5000
    THEN <<"Schedule check-in call", "Review pricing options">>
    ELSE <<"Continue standard engagement">>

NoPrediction == [shown |-> FALSE]

\* the four conditions of a record the heuristic tests, and one of the
\* fields it does not
Summary(r, prob, risk) ==
    [kind |-> "Summary", contract |-> r.contract, short_tenure |-> r.tenure < 12,
     fiber |-> r.internet = "Fiber optic",
     echeck |-> r.payment = "Electronic check",
     senior |-> r.senior, prob |-> prob, risk |-> risk]

\* the user changes one widget: the script reruns with the button unpressed
\* and draws the form only
SetWidget(w, v) ==
    /\ v # form[w]
    /\ form' = [form EXCEPT ![w] = v]
    /\ prediction' = NoPrediction
    /\ prevPrediction' = IF prediction.shown
                         THEN Summary(form, prediction.prob, prediction.risk)
                         ELSE prevPrediction
    /\ UNCHANGED <<dashVars, sessionVars, compareVars, authPage>>

\* the user presses Predict Churn
show_quick_predict_page ==
    LET prob == estimate(form)
        risk == RiskLadder(prob)
    IN  /\ prediction' = [shown |-> TRUE, prob |-> prob, risk |-> risk,
                          will_churn |-> IF prob >= 5000 THEN "Yes" ELSE "No",
                          recommendations |-> recommend(prob)]
        /\ UNCHANGED <<form, prevPrediction, dashVars, sessionVars, compareVars, authPage>>

----------------------------------------------------------------------------
(* API helper *)

MaxHistory == 2

\* a JSON value: None, an object, or a list
Dict(d) == [kind |-> "dict", dict |-> d]
List(l) == [kind |-> "list", list |-> l]

\* a key of a JSON object holds the set of its value, empty when the key is absent
Missing == {}

\* dict.get(key, default)
Get(d, key, default) == IF d[key] = Missing THEN default ELSE CHOOSE x \in d[key] : TRUE

\* the JSON objects POST /datasets/compare and GET /datasets/compare/latest
\* may answer with; every key may be absent
ComparisonDicts ==
    [error              : {Missing},
     is_improvement     : {Missing, {TRUE}, {FALSE}},
     profit_loss_amount : {Missing, {0 - 12}, {12}},
     customer_change    : {Missing, {1}},
     churn_rate_change  : {Missing, {0 - 1}, {0}, {1}},
     revenue_change     : {Missing, {1}},
     risk_change        : {Missing, {0 - 1}, {1}}]

EmptyDict == [k \in {"error", "is_improvement", "profit_loss_amount", "customer_change",
                     "churn_rate_change", "revenue_change", "risk_change"} |-> Missing]

ErrorDict(msg) == Dict([EmptyDict EXCEPT !["error"] = {msg}])

\* what the server may do with a request whose 200 answer would carry one of bodies
Responses(bodies) ==
    [status : {"200"}, body : bodies]
        \cup [status : {"401", "500", "ConnectionError"}, body : {None}]

\* the value api_request returns for a response
api_request(response) ==
    IF response.status = "200" THEN response.body
    ELSE IF response.status = "401" THEN ErrorDict("Unauthorized. Please login again.")
    ELSE IF response.status = "500" THEN ErrorDict("Unknown error")
    ELSE ErrorDict("Cannot connect to API. Make sure the backend is running.")

\* a 401 handler that forgets to reset the flag
AuthenticatedAfter_kept(response, flag) == flag

\* st.session_state.authenticated after api_request has handled a response
AuthenticatedAfter(response, flag) ==
    IF response.status = "401" THEN FALSE ELSE flag

\* st.session_state.token after api_request has handled a response
TokenAfter(response, tok) ==
    IF response.status = "401" THEN None ELSE tok

\* what api_request does to the session state on a response
api_request_session(response) ==
    /\ authenticated' = AuthenticatedAfter(response, authenticated)
    /\ token' = TokenAfter(response, token)
    /\ UNCHANGED <<user, current_analysis>>

\* Python truth value of a returned JSON value
Truthy(v) ==
    CASE v.kind = "None" -> FALSE
      [] v.kind = "dict" -> v.dict # EmptyDict
      [] v.kind = "list" -> Len(v.list) > 0

\* "error" in v
HasError(v) == v.kind = "dict" /\ v.dict["error"] # Missing

\* key in v, for the other keys
HasKey(v, key) == v.kind = "dict" /\ key \in DOMAIN v.dict /\ v.dict[key] # Missing

----------------------------------------------------------------------------
(* History & comparison page *)

Labels == {"jan.csv (2024-01-31)", "feb.csv (2024-02-29)"}
CustomerCounts == {0, 5}

\* the lists GET /datasets/history may answer with, newest first; a dataset
\* carries its id, the label the page derives from filename and upload date,
\* and its number of customers
Histories ==
    {[i \in 1..Len(s) |-> [id |-> Len(s) + 1 - i, label |-> s[i].label,
                           total_customers |-> s[i].total_customers]] :
        s \in SeqsUpTo([label : Labels, total_customers : CustomerCounts], MaxHistory)}

\* list(dataset_options.keys()): the labels in order of first occurrence
RECURSIVE OptionKeys(_)
OptionKeys(h) ==
    IF h = <<>> THEN <<>>
    ELSE LET before == OptionKeys(SubSeq(h, 1, Len(h) - 1))
             label  == h[Len(h)].label
         IN  IF \E i \in 1..Len(before) : before[i] = label
             THEN before ELSE Append(before, label)

\* dataset_options[label]: a later dataset of the same label replaces an earlier one
dataset_options(h, label) ==
    LET last == CHOOSE i \in 1..Len(h) :
                    /\ h[i].label = label
                    /\ \A j \in (i + 1)..Len(h) : h[j].label # label
    IN  h[last].id

Unset == "unset"

NoPage == [view |-> "none", button |-> "none", outcome |-> "none", request |-> None,
           comparison |-> None, display |-> None]

\* the page without its test for equal ids
SameDataset_unchecked(prev_id, curr_id) == FALSE

\* if prev_id == curr_id
SameDataset(prev_id, curr_id) == prev_id = curr_id

\* what show_comparison_results puts on the page for a comparison object
show_comparison_results(comparison) ==
    LET is_improvement == Get(comparison, "is_improvement", FALSE)
        profit_loss    == Get(comparison, "profit_loss_amount", 0)
    IN  [kind   |-> "results",
         banner |-> IF is_improvement THEN "IMPROVEMENT DETECTED" ELSE "ATTENTION NEEDED",
         amount_label |-> IF is_improvement THEN "Estimated Annual Profit"
                          ELSE "Estimated Annual Loss",
         amount |-> IF is_improvement THEN profit_loss
                    ELSE IF profit_loss < 0 THEN 0 - profit_loss ELSE profit_loss,
         customer_change   |-> Get(comparison, "customer_change", 0),
         churn_rate_change |-> Get(comparison, "churn_rate_change", 0),
         revenue_change    |-> Get(comparison, "revenue_change", 0),
         risk_change       |-> Get(comparison, "risk_change", 0)]

\* the part of the page drawn from the answer to GET /datasets/history
PageView(h) ==
    IF ~Truthy(h) \/ HasError(h) THEN "no_datasets"
    ELSE IF Len(h.list) < 2 THEN "history_only"
    \* st.selectbox(..., index=1) on a list of one option raises
    ELSE IF Len(OptionKeys(h.list)) < 2 THEN "exception"
    ELSE "compare_form"

HistoryResponses == Responses({List(history)})

CompareResponses == Responses({Dict(d) : d \in ComparisonDicts} \cup {None})

\* the selectboxes keep their value while they are drawn and start from
\* index 1 (baseline) and index 0 (current)
Selections(view, h, prev, curr) ==
    IF view = "compare_form"
    THEN <<IF prev = Unset THEN OptionKeys(h.list)[2] ELSE prev,
           IF curr = Unset THEN OptionKeys(h.list)[1] ELSE curr>>
    ELSE <<Unset, Unset>>

\* main: an unauthenticated session gets the login page
show_auth_page ==
    /\ ~authenticated
    /\ comparePage.view # "auth"
    /\ comparePage' = [NoPage EXCEPT !.view = "auth"]
    /\ prev_selection' = Unset
    /\ curr_selection' = Unset
    /\ UNCHANGED <<history, sessionVars, dashVars, predictVars, authPage>>

\* a run of the page with no button pressed: the page is opened, or one
\* selectbox (which = 1 baseline, 2 current, 0 none) is set to label
show_comparison_page(which, label, response) ==
    /\ authenticated
    /\ comparePage.outcome # "comparing"
    /\ which # 0 => /\ comparePage.view = "compare_form"
                    /\ \E i \in 1..Len(OptionKeys(history)) : OptionKeys(history)[i] = label
                    /\ label # (IF which = 1 THEN prev_selection ELSE curr_selection)
    /\ api_request_session(response)
    /\ LET h    == api_request(response)
           view == PageView(h)
           sel  == Selections(view, h,
                              IF which = 1 THEN label ELSE prev_selection,
                              IF which = 2 THEN label ELSE curr_selection)
       IN  /\ comparePage' = [NoPage EXCEPT !.view = view]
           /\ prev_selection' = sel[1]
           /\ curr_selection' = sel[2]
    /\ UNCHANGED <<history, dashVars, predictVars, authPage>>

\* a run of the page with Compare Datasets (button = "selected") or Compare
\* Latest Upload with Previous (button = "latest") pressed, up to the request
ClickCompare(button, response) ==
    /\ authenticated
    /\ comparePage.view = "compare_form"
    /\ comparePage.outcome # "comparing"
    /\ api_request_session(response)
    /\ LET h    == api_request(response)
           view == PageView(h)
           sel  == Selections(view, h, prev_selection, curr_selection)
       IN  /\ prev_selection' = sel[1]
           /\ curr_selection' = sel[2]
           /\ IF view # "compare_form"
              THEN comparePage' = [NoPage EXCEPT !.view = view, !.button = button]
              ELSE IF button = "selected"
              THEN LET prev_id == dataset_options(h.list, sel[1])
                       curr_id == dataset_options(h.list, sel[2])
                   IN  IF SameDataset(prev_id, curr_id)
                       THEN comparePage' = [NoPage EXCEPT !.view = view, !.button = button,
                                                          !.outcome = "identical_warning"]
                       ELSE comparePage' =
                              [NoPage EXCEPT !.view = view, !.button = button,
                                 !.outcome = "comparing",
                                 !.request = [kind |-> "request", method |-> "POST",
                                              endpoint |-> "/datasets/compare",
                                              dataset_1_id |-> prev_id,
                                              dataset_2_id |-> curr_id]]
              ELSE comparePage' =
                     [NoPage EXCEPT !.view = view, !.button = button,
                        !.outcome = "comparing",
                        !.request = [kind |-> "request", method |-> "GET",
                                     endpoint |-> "/datasets/compare/latest"]]
    /\ UNCHANGED <<history, dashVars, predictVars, authPage>>

\* the rest of that run: the answer to the compare request arrives
CompareResponse(response) ==
    /\ comparePage.outcome = "comparing"
    /\ api_request_session(response)
    /\ LET comparison == api_request(response)
       IN  IF Truthy(comparison) /\ ~HasError(comparison)
           THEN comparePage' = [comparePage EXCEPT
                                  !.outcome = "results",
                                  !.comparison = comparison,
                                  !.display = show_comparison_results(comparison.dict)]
           ELSE IF comparePage.request.method = "GET" /\ comparison = None
           THEN comparePage' = [comparePage EXCEPT !.outcome = "need_two"]
           ELSE comparePage' = [comparePage EXCEPT !.outcome = "failed"]
    /\ UNCHANGED <<history, prev_selection, curr_selection, dashVars, predictVars, authPage>>

----------------------------------------------------------------------------
(* Login, logout and upload *)

Token(t) == [kind |-> "str", value |-> t]

TokenValues == {"t1", "t2", "t3"}
UserNames == {"alice", "bob", "carol"}
AnalysisTotals == {5, 9}

\* the answers to POST /auth/login-json: with an access token, or without
LoginBodies ==
    {Dict([error |-> Missing, access_token |-> {t}]) : t \in TokenValues}
        \cup {Dict([error |-> Missing, access_token |-> Missing])}

\* the answers to GET /auth/me
UserBodies == {Dict([error |-> Missing, username |-> {u}]) : u \in UserNames}

\* the answers to POST /datasets/upload
AnalysisBodies == {Dict([error |-> Missing, total_customers |-> {n}]) : n \in AnalysisTotals}

NoAuthPage == [view |-> "none", returned |-> FALSE, access_token |-> None]

\* the login form is submitted: login_user, whose return value show_auth_page
\* turns into "Login successful!" or "Invalid email or password"
login_user(login_response, me_response) ==
    /\ ~authenticated
    /\ LET result == api_request(login_response)
       IN  IF Truthy(result) /\ HasKey(result, "access_token")
           THEN LET access_token == Token(Get(result.dict, "access_token", ""))
                    user_info    == api_request(me_response)
                IN  \* token and flag are set, then GET /auth/me is handled
                    /\ token' = TokenAfter(me_response, access_token)
                    /\ authenticated' = AuthenticatedAfter(me_response, TRUE)
                    /\ user' = IF Truthy(user_info) /\ ~HasError(user_info)
                               THEN user_info ELSE user
                    /\ authPage' = [view |-> "login", returned |-> TRUE,
                                    access_token |-> access_token]
           ELSE /\ token' = TokenAfter(login_response, token)
                /\ authenticated' = AuthenticatedAfter(login_response, authenticated)
                /\ user' = user
                /\ authPage' = [view |-> "login", returned |-> FALSE,
                                access_token |-> None]
    /\ UNCHANGED <<current_analysis, dashVars, predictVars, compareVars>>

\* the registration form is submitted with valid fields
register_user(response) ==
    /\ ~authenticated
    /\ api_request_session(response)
    /\ authPage' = [view |-> "register", returned |-> FALSE, access_token |-> None]
    /\ UNCHANGED <<dashVars, predictVars, compareVars>>

\* the Logout button of the sidebar
logout_user ==
    /\ authenticated
    /\ authenticated' = FALSE
    /\ token' = None
    /\ user' = None
    /\ current_analysis' = None
    /\ authPage' = NoAuthPage
    /\ UNCHANGED <<dashVars, predictVars, compareVars>>

\* Analyze Dataset on the upload page: upload_dataset, and the result kept
\* in the session when it is not an error
show_upload_page(response) ==
    /\ authenticated
    /\ LET result == api_request(response)
       IN  current_analysis' = IF Truthy(result) /\ ~HasError(result)
                               THEN result ELSE current_analysis
    /\ authenticated' = AuthenticatedAfter(response, authenticated)
    /\ token' = TokenAfter(response, token)
    /\ authPage' = NoAuthPage
    /\ UNCHANGED <<user, dashVars, predictVars, compareVars>>

\* any other request of a logged-in page, its answer only displayed
get_dataset_history(response) ==
    /\ authenticated
    /\ api_request_session(response)
    /\ authPage' = NoAuthPage
    /\ UNCHANGED <<dashVars, predictVars, compareVars>>

----------------------------------------------------------------------------
(* Specifications *)

\* session state initialization
InitSession ==
    /\ authenticated = FALSE
    /\ token = None
    /\ user = None
    /\ current_analysis = None

InitDashboard ==
    /\ csv = None
    /\ data = None
    /\ dash = NoDash

InitPredict ==
    /\ form = DefaultForm
    /\ prediction = NoPrediction
    /\ prevPrediction = None

InitCompare ==
    /\ history = <<>>
    /\ prev_selection = Unset
    /\ curr_selection = Unset
    /\ comparePage = NoPage

InitAuth == authPage = NoAuthPage

\* the dashboard page over every predictions file
DashboardInit ==
    /\ csv \in DataFrames \cup {None}
    /\ data = None
    /\ dash = NoDash
    /\ InitSession /\ InitPredict /\ InitCompare /\ InitAuth

DashboardNext == show_dashboard_page

DashboardSpec == DashboardInit /\ [][DashboardNext]_vars

\* the quick-predict page
PredictInit == InitDashboard /\ InitSession /\ InitPredict /\ InitCompare /\ InitAuth

PredictNext ==
    \/ \E w \in DOMAIN Widgets : \E v \in Widgets[w] : SetWidget(w, v)
    \/ show_quick_predict_page

PredictSpec == PredictInit /\ [][PredictNext]_vars

\* the comparison page of a logged-in session, over every dataset history
CompareInit ==
    /\ InitDashboard /\ InitPredict /\ InitAuth
    /\ authenticated = TRUE
    /\ token = Token("t1")
    /\ user = None
    /\ current_analysis = None
    /\ history \in Histories
    /\ prev_selection = Unset
    /\ curr_selection = Unset
    /\ comparePage = NoPage

CompareNext ==
    \/ show_auth_page
    \/ \E r \in HistoryResponses :
          \E which \in 0..2 : \E label \in Labels : show_comparison_page(which, label, r)
    \/ \E r \in HistoryResponses :
          \E button \in {"selected", "latest"} : ClickCompare(button, r)
    \/ \E r \in CompareResponses : CompareResponse(r)

CompareSpec == CompareInit /\ [][CompareNext]_vars

\* the session: login, registration, logout, upload and other requests
SessionInit == InitDashboard /\ InitSession /\ InitPredict /\ InitCompare /\ InitAuth

SessionNext ==
    \/ \E r1 \in Responses(LoginBodies) : \E r2 \in Responses(UserBodies) : login_user(r1, r2)
    \/ \E r \in Responses({None}) : register_user(r)
    \/ logout_user
    \/ \E r \in Responses(AnalysisBodies) : show_upload_page(r)
    \/ \E r \in Responses({List(<<>>)}) : get_dataset_history(r)

SessionSpec == SessionInit /\ [][SessionNext]_vars

Init == PredictInit
Next == PredictNext
Spec == PredictSpec

----------------------------------------------------------------------------
(* Risk tiers: claims C1 to C3, under DashboardSpec *)

InUnit(p) == 0 <= p /\ p <= 10000

\* the rows of the frame the dashboard page classified
Classified == IF data.kind = "DataFrame" /\ data.hasRiskLevel
              THEN 1..Len(data.rows) ELSE {}

\* C1: batch binning of the customer table and the threshold ladder of the
\* quick-predict page give the same tier to the same probability, for every
\* probability in [0,1], the boundary values 0, 0.30, 0.50, 0.70, 1.0 included.
C1_BatchAgreesWithLadder ==
    \A i \in Classified :
        InUnit(data.rows[i].Churn_Probability)
            => data.Risk_Level[i] = RiskLadder(data.rows[i].Churn_Probability)

\* the ladder as the specification words it: lower bounds inclusive
InclusiveLowerBoundTier(p) ==
    CASE p >= 7000 -> "Critical"
      [] 5000 <= p /\ p < 7000 -> "High"
      [] 3000 <= p /\ p < 5000 -> "Medium"
      [] p < 3000 -> "Low"

\* C2: every classification of a probability p in [0,1], on the quick-predict
\* page and in the dashboard table, yields the tier of the ladder with inclusive lower
\* bounds; p = 0.30 is Medium, p = 0.50 is High and p = 0.70 is Critical.
C2_InclusiveLowerBounds ==
    /\ prediction.shown => prediction.risk = InclusiveLowerBoundTier(prediction.prob)
    /\ \A i \in Classified :
          LET p == data.rows[i].Churn_Probability
          IN  /\ InUnit(p) => data.Risk_Level[i] = InclusiveLowerBoundTier(p)
              /\ p = 3000 => data.Risk_Level[i] = "Medium"
              /\ p = 5000 => data.Risk_Level[i] = "High"
              /\ p = 7000 => data.Risk_Level[i] = "Critical"

Clamp(p) == IF p < 0 THEN 0 ELSE IF p > 10000 THEN 10000 ELSE p

\* C3: classification is total and never rejects: every row of a classified
\* table gets exactly one of the four tiers; a probability below 0 gets Low
\* and one above 1 gets Critical, the tiers of the clamped values; the counts
\* of the four tiers leave no row out.
C3_TotalAndClamped ==
    /\ \A i \in Classified :
          LET p == data.rows[i].Churn_Probability
          IN  /\ data.Risk_Level[i] \in TierSet
              /\ p < 0 => data.Risk_Level[i] = "Low"
              /\ p > 10000 => data.Risk_Level[i] = "Critical"
    /\ (dash.view = "table" /\ data.hasRiskLevel)
          => dash.risk_counts["Low"] + dash.risk_counts["Medium"]
               + dash.risk_counts["High"] + dash.risk_counts["Critical"]
             = dash.total_customers

----------------------------------------------------------------------------
(* Fallback estimate and recommendations: claims C4 to C6, under PredictSpec *)

Ind(b) == IF b THEN 1 ELSE 0

Weighted(r) ==
    2000 + 3000 * Ind(r.contract = "Month-to-month") + 2000 * Ind(r.tenure < 12)
         + 1000 * Ind(r.internet = "Fiber optic")
         + 1000 * Ind(r.payment = "Electronic check")

\* C4: the estimate shown for a record is min(0.95, 0.20 + 0.30 [month-to-month]
\* + 0.20 [tenure < 12] + 0.10 [fiber] + 0.10 [electronic check]); all four
\* conditions give 0.90 and Critical, none gives 0.20 and Low.
C4_EstimateFormula ==
    prediction.shown =>
        /\ prediction.prob = Min(9500, Weighted(form))
        /\ (/\ form.contract = "Month-to-month" /\ form.tenure < 12
            /\ form.internet = "Fiber optic" /\ form.payment = "Electronic check")
              => prediction.prob = 9000 /\ prediction.risk = "Critical"
        /\ (/\ form.contract # "Month-to-month" /\ form.tenure >= 12
            /\ form.internet # "Fiber optic" /\ form.payment # "Electronic check")
              => prediction.prob = 2000 /\ prediction.risk = "Low"

C4_Witness ==
    /\ prediction.shown
    /\ form.contract = "Month-to-month" /\ form.tenure = 11
    /\ form.internet = "Fiber optic" /\ form.payment = "Electronic check"
    /\ prediction.prob = 9000
    /\ prediction.risk = "Critical"

\* the record now on the form agrees with an earlier predicted record on the
\* four conditions
SameConditions ==
    /\ prevPrediction.kind = "Summary"
    /\ prevPrediction.contract = form.contract
    /\ prevPrediction.short_tenure = (form.tenure < 12)
    /\ prevPrediction.fiber = (form.internet = "Fiber optic")
    /\ prevPrediction.echeck = (form.payment = "Electronic check")

\* C5: two records that agree on contract type, on tenure < 12, on fiber
\* internet and on electronic-check payment get the same estimate and the same
\* tier, whatever their other fields are.
C5_OnlyFourConditions ==
    (prediction.shown /\ SameConditions) =>
        /\ prediction.prob = prevPrediction.prob
        /\ prediction.risk = prevPrediction.risk

C5_Witness ==
    /\ prediction.shown
    /\ SameConditions
    /\ prevPrediction.senior # form.senior
    /\ form.gender = "Female" /\ form.partner = "Yes" /\ form.phone = "No"
    /\ form.monthly = 18 /\ form.total = 0
    /\ prediction.prob = prevPrediction.prob

\* the lookup from tier to recommended actions
ActionsOf(tier) ==
    CASE tier = "Critical" ->
             <<"Offer contract upgrade discount", "Assign dedicated support">>
      [] tier = "High" -> <<"Schedule check-in call", "Review pricing options">>
      [] tier \in {"Medium", "Low"} -> <<"Continue standard engagement">>

\* C6: the recommended actions shown are a function of the risk tier shown
\* with them: Critical, High, and Medium or Low each have their fixed list.
C6_ActionsFollowTier ==
    prediction.shown => prediction.recommendations = ActionsOf(prediction.risk)

C6_Witness ==
    /\ prediction.shown
    /\ prediction.prob = 7000
    /\ prediction.risk = "Critical"
    /\ prediction.recommendations[2] = "Assign dedicated support"

----------------------------------------------------------------------------
(* Comparison page: claims C7 to C10, under CompareSpec *)

\* the run that drew the page had Compare Datasets pressed with both
\* selectboxes resolving to one dataset id
IdenticalSelection ==
    /\ comparePage.button = "selected"
    /\ comparePage.view = "compare_form"
    /\ dataset_options(history, prev_selection) = dataset_options(history, curr_selection)

\* C7: comparing a dataset with itself never produces a comparison result:
\* it ends in the identical-dataset outcome, which is not the generic failure,
\* no compare request is issued and no results are shown; and no request for
\* a selected pair ever names one dataset twice.
C7_IdenticalDatasetRejected ==
    /\ IdenticalSelection =>
          /\ comparePage.outcome = "identical_warning"
          /\ comparePage.outcome # "failed"
          /\ comparePage.request = None
          /\ comparePage.display = None
    /\ (comparePage.request # None /\ comparePage.request.method = "POST")
          => comparePage.request.dataset_1_id # comparePage.request.dataset_2_id

C7_Witness ==
    /\ IdenticalSelection
    /\ Len(history) >= 2
    /\ prev_selection = curr_selection
    /\ comparePage.outcome = "identical_warning"

\* the two datasets a displayed comparison is about
ComparedPair ==
    IF comparePage.request.method = "POST"
    THEN {d \in {history[i] : i \in 1..Len(history)} :
            d.id \in {comparePage.request.dataset_1_id, comparePage.request.dataset_2_id}}
    ELSE {history[1], history[2]}

\* C8: on both paths that display comparison results, no result is displayed
\* for a pair of datasets one of which has zero customers.
C8_NoResultForEmptySnapshot ==
    comparePage.outcome = "results" => \A d \in ComparedPair : d.total_customers > 0

Present(d, key) == d[key] # Missing

\* the is_improvement key of the answer, when the answer has one, is what the
\* comparator computes: churn_rate_change < 0
FlagAsComputed(d) ==
    Present(d, "is_improvement") =>
        Get(d, "is_improvement", FALSE) = (Get(d, "churn_rate_change", 0) < 0)

\* C9: for every comparison result displayed, the IMPROVEMENT DETECTED banner
\* is shown if and only if churn_rate_change < 0; an equal churn rate is shown
\* as not an improvement.  Stated for the answers whose flag, when it is
\* there, is the comparator's.
C9_ImprovementIffChurnRateFell ==
    (comparePage.outcome = "results" /\ FlagAsComputed(comparePage.comparison.dict)) =>
        (comparePage.display.banner = "IMPROVEMENT DETECTED"
            <=> comparePage.display.churn_rate_change < 0)

\* the answer carries the four keys of the verdict, computed as the
\* comparator computes them
VerdictAsComputed(d) ==
    /\ Present(d, "is_improvement") /\ Present(d, "churn_rate_change")
    /\ Present(d, "profit_loss_amount") /\ Present(d, "risk_change")
    /\ Get(d, "is_improvement", FALSE) = (Get(d, "churn_rate_change", 0) < 0)
    /\ Get(d, "profit_loss_amount", 0) = (0 - 12) * Get(d, "risk_change", 0)

\* C10: for every comparison result displayed, profit_loss_amount, which is
\* -12 times risk_change, is read with its sign: a positive amount (at-risk
\* revenue fell) is presented as annual profit, a negative amount (at-risk
\* revenue rose) as annual loss.  Stated for the answers that carry the
\* verdict as the comparator computes it.
C10_ProfitLossSign ==
    (comparePage.outcome = "results" /\ VerdictAsComputed(comparePage.comparison.dict)) =>
        LET profit_loss == Get(comparePage.comparison.dict, "profit_loss_amount", 0)
        IN  /\ profit_loss > 0 => comparePage.display.amount_label = "Estimated Annual Profit"
            /\ profit_loss < 0 => comparePage.display.amount_label = "Estimated Annual Loss"

VerdictKeys == {"is_improvement", "profit_loss_amount", "customer_change",
                "churn_rate_change", "revenue_change", "risk_change"}

\* C11: a comparison whose result lacks one of is_improvement,
\* profit_loss_amount, customer_change, churn_rate_change, revenue_change or
\* risk_change fails as a whole: nothing of it is displayed, and no missing
\* value is shown as a default such as 0 or False.
C11_NoPartialResult ==
    comparePage.outcome = "results" =>
        \A key \in VerdictKeys : Present(comparePage.comparison.dict, key)

----------------------------------------------------------------------------
(* Dashboard summary and frame: claims C12 and C13, under DashboardSpec *)

\* C12: classifying a customer table leaves the table unchanged: after the
\* risk-distribution step the frame load_data returned has the columns and
\* values it had when it was returned, no column added and no value modified.
C12_InputFrameUnchanged ==
    dash.view = "table" =>
        /\ data.hasProb = load_data.hasProb
        /\ data.rows = load_data.rows
        /\ ~data.hasRiskLevel

\* the thresholds worth telling apart on the sampled probabilities
Thresholds == ProbValues \cup {10002}

\* C13: in the summary the dashboard shows, the High Risk Customers count
\* (high_risk) and the Monthly Revenue at Risk (revenue_at_risk) are taken
\* over the same customers: those at or above one at-risk threshold.
C13_OneAtRiskSet ==
    (dash.view = "table" /\ data.hasProb) =>
        \E t \in Thresholds :
            /\ dash.high_risk = CountAtLeast(data.rows, t)
            /\ dash.revenue_at_risk = ChargesAtLeast(data.rows, t)

----------------------------------------------------------------------------
(* Session state: claims C14 to C16, under SessionSpec *)

\* C14: whenever the session is unauthenticated, after logout_user or after
\* an api_request that received 401, nothing of the previous session remains:
\* user and current_analysis are None.
C14_NothingLeftWhenUnauthenticated ==
    ~authenticated => (user = None /\ current_analysis = None)

\* C15: whenever login_user returns True the session is authenticated on
\* return and holds the access token of the login response, whatever the
\* outcome of the GET /auth/me request made inside login_user.
C15_LoginTrueMeansAuthenticated ==
    (authPage.view = "login" /\ authPage.returned) =>
        (authenticated /\ token = authPage.access_token)

====
